---- MODULE Spec2Model ----
(***************************************************************************)
(* SourceForgeSpeedTest: probing, ranking and publication of the fastest   *)
(* mirror host.  The module holds three state machines over one set of     *)
(* variables:                                                              *)
(*   SpecRank      one findFastestDomain pass (measureLatencyAndDownload,  *)
(*                 excludeDownloadError, sort.Sort(ByLatency), [0].Name)   *)
(*                 with one goroutine per candidate;                       *)
(*   SpecDownload  one call of download: attempt goroutines, the           *)
(*                 unbuffered channel speedCh, the closer and the          *)
(*                 collecting loop;                                        *)
(*   Spec          main of src/main.go: startup cycle, startGinServer,     *)
(*                 ticker loop, request handlers and the three global      *)
(*                 selection strings; and main of src/unnamed/part_000,    *)
(*                 the single-list program whose server closes over the    *)
(*                 selected host.  A run is of one of the two programs.    *)
(* A specification leaves the variables of the other two at their idle     *)
(* values.                                                                 *)
(***************************************************************************)
EXTENDS Integers, Sequences, FiniteSets, TLC

VARIABLES
    \* ---- one ranking pass (findFastestDomain) ----
    input,      \* the list returned by readDomainsFromFile, as read
    domains,    \* the slice `domains` of findFastestDomain
    task,       \* position of the goroutine of each index
    rpc,        \* position of findFastestDomain itself
    measured,   \* history: the slice as wg.Wait() found it
    called,     \* history: the indexes download was called for
    fastest,    \* the value findFastestDomain returned
    \* ---- one call of download ----
    threads,    \* the flag -threads
    att,        \* position of each attempt goroutine
    val,        \* what each attempt puts on speedCh (0: nothing yet)
    wg,         \* counter of the sync.WaitGroup
    closed,     \* number of times speedCh has been closed
    dpc,        \* position of download itself
    totalSpeed, \* var totalSpeed int
    count,      \* var count int
    ret,        \* what download returned
    \* ---- one call of tping ----
    pingcount,  \* the flag -pingcount
    tpc,        \* position of tping
    sent,       \* stats.PacketsSent
    recv,       \* stats.PacketsRecv
    avgRtt,     \* stats.AvgRtt, in microseconds
    tret,       \* what tping returned
    \* ---- main ----
    prog,       \* the program that runs: "main.go" or "part_000"
    mpc,        \* position of the main goroutine
    all,        \* the slice `domains` of main
    full,       \* history: the lines of the list file `all` was read from
    sel,        \* allfastestdomain, multifastestdomain, singlefastestdomain
    pend,       \* the string being assigned to a selection
    wrote,      \* the words of that assignment already stored
    server,     \* "serving" once r.Run has bound the port
    captured,   \* part_000: the parameter `domain` the handler closes over
    req,        \* the last response of a request handler
    cycles,     \* completed calls of updateAndStoreFastestDomains
    ok,         \* history: the hosts that assignment may rightly store
    hadEligible \* history: per group, some cycle found an eligible host

rankVars == <<input, domains, task, rpc, measured, called, fastest>>

dlVars == <<threads, att, val, wg, closed, dpc, totalSpeed, count, ret>>

mainVars == <<prog, mpc, all, full, sel, pend, wrote, server, captured, req,
              cycles, ok, hadEligible>>

pingVars == <<pingcount, tpc, sent, recv, avgRtt, tret>>

vars == <<rankVars, dlVars, mainVars, pingVars>>

----------------------------------------------------------------------------
(* Bounds *)

\* longest candidate list read from a file
MaxLen == 3

\* Host names a list file may hold, in file order.
HostPool == <<"x.test", "y.test", "z.test", "w.test", "v.test">>

\* Round-trip times (ms) a successful probe may report.
RttVals == {10, 30}

\* Mean download times (ms) a successful download may report.
SpeedVals == {20, 40}

\* largest value of the flag -threads
MaxThreads == 4

\* Elapsed times (ms) one successful http.Get may take.
ElapsedVals == {10, 20, 30}

\* longest candidate list of a group of the main program
MaxGroupLen == 2

\* calls of updateAndStoreFastestDomains the model follows
MaxCycles == 2

\* largest value of the flag -pingcount
MaxPing == 3

\* Average round-trip times (microseconds) the pinger may report.
RttMicros == {0, 400, 1000, 10500, 30000}

----------------------------------------------------------------------------
(* type Domain struct, main.go:39-44 *)

\* Domain{Name: scanner.Text()}: the other fields hold Go's zero values.
Domain(name) ==
    [Name |-> name, Latency |-> 0, Download |-> 0, DownloadErr |-> FALSE]

\* The contents a list file may have: the first n names of the pool.
FileContentsUpTo(m) ==
    { [i \in 1..n |-> HostPool[i]] : n \in 0..m }

FileContents == FileContentsUpTo(MaxLen)

\* readDomainsFromFile on a readable file: one Domain per line, in order.
readDomainsFromFile(lines) ==
    [i \in 1..Len(lines) |-> Domain(lines[i])]

----------------------------------------------------------------------------
(* tping and download as seen by their caller *)

\* tping returns (-1, err) on every failure path and
\* (int(stats.AvgRtt.Milliseconds()), nil) otherwise.
tpingResults == {-1} \cup RttVals

\* download returns (-1, err) or (totalSpeed / count, nil).
downloadResults ==
    {[err |-> TRUE, speed |-> -1]} \cup
    {[err |-> FALSE, speed |-> s] : s \in SpeedVals}

----------------------------------------------------------------------------
(* ByLatency and sort.Sort, main.go:46-50 *)

\* Less with the comparison reversed.
\* The field of a Domain that Less compares.
SortKey_download(d) == d.Download

SortKey(d) == d.Latency

Less_descending(a, i, j) == SortKey(a[i]) > SortKey(a[j])

\* func (a ByLatency) Less(i, j int) bool
Less(a, i, j) == SortKey(a[i]) < SortKey(a[j])

\* sort.Sort promises an ordering under Less and nothing about the order of
\* elements that compare equal ("not guaranteed to be stable"): its result is
\* any permutation of the slice in which no element is Less than one before it.
SortSort(a) ==
    LET n == Len(a)
        perm(p) == [i \in 1..n |-> a[p[i]]]
    IN  { perm(p) : p \in { q \in Permutations(1..n) :
              \A i \in 1..n : \A j \in 1..n :
                  i < j => ~Less(perm(q), j, i) } }

----------------------------------------------------------------------------
(* excludeDownloadError, main.go:132-140 *)

excludeDownloadError(ds) == SelectSeq(ds, LAMBDA d : ~d.DownloadErr)

----------------------------------------------------------------------------
(* SpecRank: findFastestDomain, main.go:261-266, with the goroutines of    *)
(* measureLatencyAndDownload, main.go:108-130                              *)

DownloadIdle ==
    /\ threads = 0
    /\ att = <<>>
    /\ val = <<>>
    /\ wg = 0
    /\ closed = 0
    /\ dpc = "idle"
    /\ totalSpeed = 0
    /\ count = 0
    /\ ret = [speed |-> 0, err |-> FALSE]

Groups == {"all", "multi", "single"}

\* A Go string is two words, a data pointer and a length; a value is whole
\* when both words come from the same string.  The zero value is "".
Str(name) == [ptr |-> name, len |-> name]

TpingIdle ==
    /\ pingcount = 0
    /\ tpc = "idle"
    /\ sent = 0
    /\ recv = 0
    /\ avgRtt = 0
    /\ tret = [latency |-> 0, err |-> FALSE]

MainIdle ==
    /\ prog = "none"
    /\ captured = ""
    /\ mpc = "idle"
    /\ all = <<>>
    /\ full = <<>>
    /\ sel = [g \in Groups |-> Str("")]
    /\ pend = ""
    /\ wrote = {}
    /\ server = "none"
    /\ req = [group |-> "none", kind |-> "none", ptr |-> "", len |-> ""]
    /\ cycles = 0
    /\ ok = {}
    /\ hadEligible = [g \in Groups |-> FALSE]

InitRank ==
    /\ DownloadIdle
    /\ MainIdle
    /\ TpingIdle
    /\ input \in FileContents
    /\ domains = readDomainsFromFile(input)
    /\ task = [i \in 1..Len(input) |-> "tping"]
    /\ rpc = "measure"
    /\ measured = <<>>
    /\ called = {}
    /\ fastest = ""

\* go func(i int) {...}(i): the element of the slice goroutine i works on.
Elem_loopVariable(i) == Len(domains)

Elem(i) == i

\* if latency != -1 { download ... }: where the goroutine goes after tping.
AfterTping_always(latency) == "download"

AfterTping(latency) == IF latency # -1 THEN "download" ELSE "done"

\* wg.Wait() returns when every goroutine has called wg.Done().
WgWait_noBarrier == TRUE

WgWait == \A i \in DOMAIN task : task[i] = "done"

\* latency, _ := tping(name); domains[i].Latency = latency; the goroutine
\* ends here when latency = -1.
TaskTping(i) ==
    /\ rpc = "measure"
    /\ i \in DOMAIN task
    /\ task[i] = "tping"
    /\ \E latency \in tpingResults :
         /\ domains' = [domains EXCEPT ![Elem(i)].Latency = latency]
         /\ task' = [task EXCEPT ![i] = AfterTping(latency)]
    /\ UNCHANGED <<input, rpc, measured, called, fastest, dlVars, mainVars, pingVars>>

\* downloadSpeed, err := download(name); on err DownloadErr = true and
\* return, otherwise Download = downloadSpeed.
TaskDownload(i) ==
    /\ rpc = "measure"
    /\ i \in DOMAIN task
    /\ task[i] = "download"
    /\ \E r \in downloadResults :
         domains' = IF r.err
                    THEN [domains EXCEPT ![Elem(i)].DownloadErr = TRUE]
                    ELSE [domains EXCEPT ![Elem(i)].Download = r.speed]
    /\ task' = [task EXCEPT ![i] = "done"]
    /\ called' = called \cup {i}
    /\ UNCHANGED <<input, rpc, measured, fastest, dlVars, mainVars, pingVars>>

\* wg.Wait() has returned: excludeDownloadError, sort.Sort(ByLatency(domains))
\* and return domains[0].Name.  Indexing an empty slice panics.
FindFastestReturn ==
    /\ rpc = "measure"
    /\ WgWait
    /\ \E sorted \in SortSort(excludeDownloadError(domains)) :
         /\ domains' = sorted
         /\ IF Len(sorted) = 0
            THEN rpc' = "panic" /\ fastest' = fastest
            ELSE rpc' = "returned" /\ fastest' = sorted[1].Name
    /\ measured' = domains
    /\ UNCHANGED <<input, task, called, dlVars, mainVars, pingVars>>

NextRank ==
    \/ \E i \in 1..MaxLen : TaskTping(i)
    \/ \E i \in 1..MaxLen : TaskDownload(i)
    \/ FindFastestReturn

SpecRank == InitRank /\ [][NextRank]_vars

----------------------------------------------------------------------------
(* SpecDownload: download, main.go:168-208 *)

RankIdle ==
    /\ input = <<>>
    /\ domains = <<>>
    /\ task = <<>>
    /\ rpc = "idle"
    /\ measured = <<>>
    /\ called = {}
    /\ fastest = ""

\* Go's integer division truncates toward zero.
GoDiv(a, b) == IF a >= 0 THEN a \div b ELSE -((-a) \div b)

\* Collect with count++ moved out of the `if`: failed attempts are counted.
Collect_countsEvery(total, cnt, speed) ==
    [total |-> IF speed # -1 THEN total + speed ELSE total, cnt |-> cnt + 1]

\* Body of `for speed := range speedCh`: a speed other than -1 is added to
\* totalSpeed and counted.
Collect(total, cnt, speed) ==
    IF speed # -1
    THEN [total |-> total + speed, cnt |-> cnt + 1]
    ELSE [total |-> total, cnt |-> cnt]

\* The state when the spawning loop has run: `threads` goroutines started,
\* wg.Add(1) done for each, the closer started, download at its range loop.
InitDownload ==
    /\ RankIdle
    /\ MainIdle
    /\ TpingIdle
    /\ threads \in 0..MaxThreads
    /\ att = [i \in 1..threads |-> "get"]
    /\ val = [i \in 1..threads |-> 0]
    /\ wg = threads
    /\ closed = 0
    /\ dpc = "range"
    /\ totalSpeed = 0
    /\ count = 0
    /\ ret = [speed |-> 0, err |-> FALSE]

\* resp, err := http.Get(...): on err the goroutine will send -1, otherwise
\* int(time.Since(start).Milliseconds()).
AttemptGet(i) ==
    /\ i \in DOMAIN att
    /\ att[i] = "get"
    /\ \E v \in {-1} \cup ElapsedVals : val' = [val EXCEPT ![i] = v]
    /\ att' = [att EXCEPT ![i] = "send"]
    /\ UNCHANGED <<threads, wg, closed, dpc, totalSpeed, count, ret, rankVars, mainVars, pingVars>>

\* speedCh is unbuffered: `speedCh <- v` of attempt i completes together with
\* one receive of the range loop, which then runs its body.
AttemptSend(i) ==
    /\ i \in DOMAIN att
    /\ att[i] = "send"
    /\ dpc = "range"
    /\ closed = 0
    /\ LET c == Collect(totalSpeed, count, val[i]) IN
         /\ totalSpeed' = c.total
         /\ count' = c.cnt
    /\ att' = [att EXCEPT ![i] = "sent"]
    /\ UNCHANGED <<threads, val, wg, closed, dpc, ret, rankVars, mainVars, pingVars>>

\* The deferred wg.Done() of attempt i.
AttemptDone(i) ==
    /\ i \in DOMAIN att
    /\ att[i] = "sent"
    /\ att' = [att EXCEPT ![i] = "done"]
    /\ wg' = wg - 1
    /\ UNCHANGED <<threads, val, closed, dpc, totalSpeed, count, ret, rankVars, mainVars, pingVars>>

\* wg.Wait() of the closer returns when every attempt has called wg.Done().
CloserWait_skipped == TRUE

CloserWait == wg = 0

\* go func() { wg.Wait(); close(speedCh) }()
Closer ==
    /\ dpc = "range"
    /\ CloserWait
    /\ closed = 0
    /\ closed' = closed + 1
    /\ UNCHANGED <<threads, att, val, wg, dpc, totalSpeed, count, ret, rankVars, mainVars, pingVars>>

\* The range loop ends when speedCh is closed; count == 0 is an error,
\* otherwise download returns totalSpeed / count.
DownloadReturn ==
    /\ dpc = "range"
    /\ closed > 0
    /\ dpc' = "returned"
    /\ ret' = IF count = 0
              THEN [speed |-> -1, err |-> TRUE]
              ELSE [speed |-> GoDiv(totalSpeed, count), err |-> FALSE]
    /\ UNCHANGED <<threads, att, val, wg, closed, totalSpeed, count, rankVars, mainVars, pingVars>>

NextDownload ==
    \/ \E i \in 1..MaxThreads : AttemptGet(i)
    \/ \E i \in 1..MaxThreads : AttemptSend(i)
    \/ \E i \in 1..MaxThreads : AttemptDone(i)
    \/ Closer
    \/ DownloadReturn

SpecDownload == InitDownload /\ [][NextDownload]_vars

----------------------------------------------------------------------------
(* Properties of one call of download *)

\* The attempts whose http.Get did not error.
Succeeded == {i \in DOMAIN val : val[i] \in ElapsedVals}

RECURSIVE SumVal(_)
SumVal(S) ==
    IF S = {} THEN 0
    ELSE LET i == CHOOSE k \in S : TRUE IN val[i] + SumVal(S \ {i})

\* C7: download returns the integer mean of the elapsed milliseconds over
\* exactly the attempts that did not error, and an error if and only if no
\* attempt succeeded (threads = 0 included).
C7_MeanOverSuccesses ==
    dpc = "returned" =>
        /\ ret.err <=> Succeeded = {}
        /\ ~ret.err =>
              ret.speed = SumVal(Succeeded) \div Cardinality(Succeeded)

\* download has returned a mean that had to be truncated, taken over the
\* attempts that succeeded while another attempt failed (for instance 13
\* for 10, 10 and 20 ms with one failed attempt).
C7_Witness ==
    /\ dpc = "returned"
    /\ \E i \in DOMAIN val : val[i] = -1
    /\ Cardinality(Succeeded) >= 2
    /\ ~ret.err
    /\ ret.speed * Cardinality(Succeeded) # SumVal(Succeeded)

----------------------------------------------------------------------------
(* One call of tping, main.go:141-167 *)

InitTping ==
    /\ RankIdle
    /\ DownloadIdle
    /\ MainIdle
    /\ pingcount \in 1..MaxPing
    /\ tpc = "new"
    /\ sent = 0
    /\ recv = 0
    /\ avgRtt = 0
    /\ tret = [latency |-> 0, err |-> FALSE]

\* time.Duration.Milliseconds(): the whole milliseconds of a duration.
Milliseconds(micros) == micros \div 1000

\* stats.PacketLoss > 0, PacketLoss being the float64
\* (PacketsSent - PacketsRecv) / PacketsSent * 100.
LossDetected_totalOnly(s, r) == r = 0

LossDetected(s, r) == s - r > 0

\* pinger, err := ping.NewPinger(domain); on err return -1, err.
TpingNewPinger ==
    /\ tpc = "new"
    /\ \/ /\ tpc' = "returned"
          /\ tret' = [latency |-> -1, err |-> TRUE]
       \/ /\ tpc' = "run"
          /\ tret' = tret
    /\ UNCHANGED <<pingcount, sent, recv, avgRtt, rankVars, dlVars, mainVars>>

\* err = pinger.Run(); on err return -1, err.  Otherwise the pinger has sent
\* up to Count packets before the timeout and received some of them; the
\* average is over the packets received.
TpingRun ==
    /\ tpc = "run"
    /\ \/ /\ tpc' = "returned"
          /\ tret' = [latency |-> -1, err |-> TRUE]
          /\ UNCHANGED <<sent, recv, avgRtt>>
       \/ \E s \in 1..pingcount : \E r \in 0..s :
          \E rtt \in IF r = 0 THEN {0} ELSE RttMicros :
            /\ sent' = s
            /\ recv' = r
            /\ avgRtt' = rtt
            /\ tpc' = "stats"
            /\ tret' = tret
    /\ UNCHANGED <<pingcount, rankVars, dlVars, mainVars>>

\* stats := pinger.Statistics(); packet loss returns -1 and an error,
\* otherwise int(stats.AvgRtt.Milliseconds()), nil.
TpingStatistics ==
    /\ tpc = "stats"
    /\ tpc' = "returned"
    /\ tret' = IF LossDetected(sent, recv)
               THEN [latency |-> -1, err |-> TRUE]
               ELSE [latency |-> Milliseconds(avgRtt), err |-> FALSE]
    /\ UNCHANGED <<pingcount, sent, recv, avgRtt, rankVars, dlVars, mainVars>>

NextTping ==
    \/ TpingNewPinger
    \/ TpingRun
    \/ TpingStatistics

SpecTping == InitTping /\ [][NextTping]_vars

----------------------------------------------------------------------------
(* Properties of one ranking pass *)

RankFinished == rpc \in {"returned", "panic"}

Ranked == 1..Len(domains)

\* Position of a name in the list as it was read.
InputPos(name) == CHOOSE i \in 1..Len(input) : input[i] = name

\* C1: the ranked list left by one measure-filter-sort pass holds no
\* candidate with DownloadErr = true and no candidate whose Latency is the
\* unmeasured sentinel -1.
C1_RankedHoldsOnlyMeasured ==
    RankFinished =>
        \A i \in Ranked : ~domains[i].DownloadErr /\ domains[i].Latency # -1

----------------------------------------------------------------------------
(* Spec: main, main.go:52-83, updateAndStoreFastestDomains, main.go:85-93, *)
(* startGinServer, main.go:229-258                                         *)

\* What one goroutine of measureLatencyAndDownload may observe for its
\* candidate: tping failed, or tping succeeded and download returned.
Outcomes ==
    {[lat |-> -1, err |-> FALSE, speed |-> 0]} \cup
    {[lat |-> l, err |-> r.err, speed |-> r.speed] :
        l \in RttVals, r \in downloadResults}

\* updateDomainsLatency, main.go:95-106: every element gets the latency its
\* goroutine measured; nothing else is written.
updateDomainsLatency(ds, lat) ==
    [i \in 1..Len(ds) |-> [ds[i] EXCEPT !.Latency = lat[i]]]

\* The slice when wg.Wait() of measureLatencyAndDownload returns.
measureAll(ds, out) ==
    [i \in 1..Len(ds) |->
        IF out[i].lat = -1 THEN [ds[i] EXCEPT !.Latency = -1]
        ELSE IF out[i].err
             THEN [ds[i] EXCEPT !.Latency = out[i].lat, !.DownloadErr = TRUE]
             ELSE [ds[i] EXCEPT !.Latency = out[i].lat,
                                !.Download = out[i].speed]]

\* measureLatencyAndDownload, main.go:108-130.
measureLatencyAndDownload(ds, out) == excludeDownloadError(measureAll(ds, out))

\* History: the names a selection may rightly take after a measurement, the
\* candidates whose probe succeeded and whose download did not fail that
\* have the least latency among such candidates.
Eligible(ds) ==
    {i \in 1..Len(ds) : ds[i].Latency # -1 /\ ~ds[i].DownloadErr}

LeastEligible(ds) ==
    {ds[i].Name : i \in {k \in Eligible(ds) :
        \A j \in Eligible(ds) : ds[k].Latency <= ds[j].Latency}}

Init ==
    /\ RankIdle
    /\ DownloadIdle
    /\ TpingIdle
    /\ prog \in {"main.go", "part_000"}
    /\ mpc = IF prog = "main.go" THEN "readAll" ELSE "p0_readAll"
    /\ captured = ""
    /\ all = <<>>
    /\ full = <<>>
    /\ sel = [g \in Groups |-> Str("")]
    /\ pend = ""
    /\ wrote = {}
    /\ server = "none"
    /\ req = [group |-> "none", kind |-> "none", ptr |-> "", len |-> ""]
    /\ cycles = 0
    /\ ok = {}
    /\ hadEligible = [g \in Groups |-> FALSE]

\* main with startGinServer called before the first cycle.
AfterRead_serverFirst == "run"

\* main.go:69-70: the list is read, then updateAndStoreFastestDomains runs.
AfterRead == "updAll"

\* main with `go startGinServer()`: the call returns at once.
AfterRun_goroutine(bound) == "ticker"

\* main.go:73 and 81: startGinServer is called on the main goroutine and
\* r.Run returns only with an error; with the port bound it never returns.
AfterRun(bound) == IF bound THEN "blocked" ELSE "ticker"

\* domains := readDomainsFromFile(file); os.Exit(1) when the file cannot be
\* opened.
ReadAll ==
    /\ mpc = "readAll"
    /\ \/ /\ mpc' = "exit"
          /\ UNCHANGED <<all, full>>
       \/ \E lines \in FileContentsUpTo(MaxGroupLen) :
            /\ all' = readDomainsFromFile(lines)
            /\ full' = lines
            /\ mpc' = AfterRead
    /\ UNCHANGED <<prog, sel, pend, wrote, server, captured, req, cycles, ok,
                   hadEligible, rankVars, dlVars, pingVars>>

\* main.go:86-90: updateDomainsLatency, sort.Sort(ByLatency(*domains)) and
\* the evaluation of (*domains)[0].Name, which panics on an empty slice.
UpdateAll ==
    /\ mpc = "updAll"
    /\ \E lat \in [1..Len(all) -> tpingResults] :
         LET m == updateDomainsLatency(all, lat) IN
         /\ ok' = LeastEligible(m)
         /\ hadEligible' = [hadEligible EXCEPT !["all"] =
                               @ \/ LeastEligible(m) # {}]
         /\ \E sorted \in SortSort(m) :
              /\ all' = sorted
              /\ IF Len(sorted) = 0
                 THEN mpc' = "panic" /\ pend' = pend
                 ELSE mpc' = "storeAll" /\ pend' = sorted[1].Name
    /\ UNCHANGED <<prog, full, sel, wrote, server, captured, req, cycles,
                   rankVars, dlVars, pingVars>>

\* The statement executed after the assignment to a group's selection.
AfterStore(g) ==
    CASE g = "all" -> "findMulti"
      [] g = "multi" -> "findSingle"
      [] g = "single" -> "run"

StorePc(g) ==
    CASE g = "all" -> "storeAll"
      [] g = "multi" -> "storeMulti"
      [] g = "single" -> "storeSingle"

\* main.go:90-92: the assignment to allfastestdomain, multifastestdomain or
\* singlefastestdomain.  The variables are plain strings written without
\* synchronisation: the two words are stored one after the other, in either
\* order.  After the third assignment updateAndStoreFastestDomains returns.
StoreWord(g, w) ==
    /\ mpc = StorePc(g)
    /\ w \notin wrote
    /\ sel' = [sel EXCEPT ![g][w] = pend]
    /\ IF wrote \cup {w} = {"ptr", "len"}
       THEN /\ wrote' = {}
            /\ pend' = ""
            /\ ok' = {}
            /\ mpc' = AfterStore(g)
            /\ cycles' = IF g = "single" THEN cycles + 1 ELSE cycles
       ELSE /\ wrote' = wrote \cup {w}
            /\ UNCHANGED <<pend, ok, mpc, cycles>>
    /\ UNCHANGED <<prog, full, all, server, captured, req, hadEligible,
                   rankVars, dlVars, pingVars>>

FindPc(g) ==
    CASE g = "multi" -> "findMulti"
      [] g = "single" -> "findSingle"

\* main.go:91-92, right-hand side: findFastestDomain("multi.txt") or
\* findFastestDomain("single.txt"), main.go:261-266.
FindFastest(g) ==
    /\ g \in {"multi", "single"}
    /\ mpc = FindPc(g)
    /\ \/ /\ mpc' = "exit"
          /\ UNCHANGED <<pend, ok, hadEligible>>
       \/ \E lines \in FileContentsUpTo(MaxGroupLen) :
          \E out \in [1..Len(lines) -> Outcomes] :
            LET ds == readDomainsFromFile(lines)
                m == measureAll(ds, out)
            IN
            /\ ok' = LeastEligible(m)
            /\ hadEligible' = [hadEligible EXCEPT ![g] =
                                  @ \/ LeastEligible(m) # {}]
            /\ \E sorted \in SortSort(measureLatencyAndDownload(ds, out)) :
                 IF Len(sorted) = 0
                 THEN mpc' = "panic" /\ pend' = pend
                 ELSE mpc' = StorePc(g) /\ pend' = sorted[1].Name
    /\ UNCHANGED <<prog, full, all, sel, wrote, server, captured, req, cycles,
                   rankVars, dlVars, pingVars>>

\* startGinServer, main.go:229-258: r.Run either fails to bind and returns
\* after logging, or serves for ever.
StartGinServer ==
    /\ mpc = "run"
    /\ \E bound \in BOOLEAN :
         /\ mpc' = AfterRun(bound)
         /\ server' = IF bound THEN "serving" ELSE server
    /\ UNCHANGED <<prog, full, all, sel, pend, wrote, captured, req, cycles, ok,
                   hadEligible, rankVars, dlVars, pingVars>>

\* main.go:79-80: `for range ticker.C` receives a tick and calls
\* updateAndStoreFastestDomains again.
Tick ==
    /\ mpc = "ticker"
    /\ cycles < MaxCycles
    /\ mpc' = "updAll"
    /\ UNCHANGED <<prog, full, all, sel, pend, wrote, server, captured, req, cycles,
                   ok, hadEligible, rankVars, dlVars, pingVars>>

\* The handlers of /all/*path, /single/*path and /multi/*path,
\* main.go:234-252: each reads its group's selection and redirects to it.
Handler(g) ==
    /\ prog = "main.go"
    /\ server = "serving"
    /\ mpc \notin {"exit", "panic"}
    /\ req' = [group |-> g, kind |-> "redirect",
               ptr |-> sel[g].ptr, len |-> sel[g].len]
    /\ UNCHANGED <<prog, full, mpc, all, sel, pend, wrote, server, captured, cycles,
                   ok, hadEligible, rankVars, dlVars, pingVars>>

----------------------------------------------------------------------------
(* main and startGinServer of src/unnamed/part_000, lines 48-78, 201-223   *)

\* part_000:64: domains := readDomainsFromFile(file).
P0ReadAll ==
    /\ mpc = "p0_readAll"
    /\ \/ /\ mpc' = "exit"
          /\ UNCHANGED <<all, full>>
       \/ \E lines \in FileContentsUpTo(MaxGroupLen) :
            /\ all' = readDomainsFromFile(lines)
            /\ full' = lines
            /\ mpc' = "p0_measure"
    /\ UNCHANGED <<prog, sel, pend, wrote, server, captured, req, cycles, ok,
                   hadEligible, rankVars, dlVars, pingVars>>

\* part_000:65-67 and 74-76: measureLatencyAndDownload(&domains), which
\* replaces the list by the filtered one, sort.Sort(ByLatency(domains)) and
\* the evaluation of the argument domains[0].Name, which panics on an empty
\* slice.  The list is the one the previous cycle left.
P0Measure ==
    /\ mpc = "p0_measure"
    /\ \E out \in [1..Len(all) -> Outcomes] :
         LET m == measureAll(all, out) IN
         /\ ok' = LeastEligible(m)
         /\ hadEligible' = [hadEligible EXCEPT !["all"] =
                               @ \/ LeastEligible(m) # {}]
         /\ \E sorted \in SortSort(measureLatencyAndDownload(all, out)) :
              /\ all' = sorted
              /\ IF Len(sorted) = 0
                 THEN mpc' = "panic" /\ UNCHANGED <<pend, cycles>>
                 ELSE /\ mpc' = IF cycles = 0 THEN "p0_go" ELSE "p0_run"
                      /\ pend' = sorted[1].Name
                      /\ cycles' = cycles + 1
    /\ UNCHANGED <<prog, full, sel, wrote, server, captured, req, rankVars, dlVars, pingVars>>

\* part_000:67: go startGinServer(domains[0].Name).
P0GoServer ==
    /\ mpc = "p0_go"
    /\ server' = "starting"
    /\ captured' = pend
    /\ pend' = ""
    /\ ok' = {}
    /\ mpc' = "p0_ticker"
    /\ UNCHANGED <<prog, full, all, sel, wrote, req, cycles, hadEligible,
                   rankVars, dlVars, pingVars>>

\* part_000:219-222 in the goroutine: r.Run(":8080") binds and serves, or
\* fails and the goroutine ends.
P0Bind ==
    /\ server = "starting"
    /\ mpc \notin {"exit", "panic"}
    /\ \E bound \in BOOLEAN :
         server' = IF bound THEN "serving" ELSE "failed"
    /\ UNCHANGED <<prog, full, mpc, all, sel, pend, wrote, captured, req, cycles, ok,
                   hadEligible, rankVars, dlVars, pingVars>>

\* part_000:73: `for range ticker.C` receives a tick.
P0Tick ==
    /\ mpc = "p0_ticker"
    /\ cycles < MaxCycles
    /\ mpc' = "p0_measure"
    /\ UNCHANGED <<prog, full, all, sel, pend, wrote, server, captured, req, cycles,
                   ok, hadEligible, rankVars, dlVars, pingVars>>

\* part_000:76: startGinServer(domains[0].Name) on the main goroutine.  The
\* port is taken while the first server serves, so r.Run fails and the call
\* returns; otherwise it may bind, and then it never returns.
P0RunServer ==
    /\ mpc = "p0_run"
    /\ \E bound \in BOOLEAN :
         IF bound /\ server # "serving"
         THEN /\ server' = "serving"
              /\ captured' = pend
              /\ mpc' = "blocked"
         ELSE /\ mpc' = "p0_ticker"
              /\ UNCHANGED <<server, captured>>
    /\ pend' = ""
    /\ ok' = {}
    /\ UNCHANGED <<prog, full, all, sel, wrote, req, cycles, hadEligible,
                   rankVars, dlVars, pingVars>>

\* The handler of /*path, part_000:205-217: redirects to the `domain` its
\* server was started with.
P0Handler ==
    /\ prog = "part_000"
    /\ server = "serving"
    /\ mpc \notin {"exit", "panic"}
    /\ req' = [group |-> "all", kind |-> "redirect",
               ptr |-> captured, len |-> captured]
    /\ UNCHANGED <<prog, full, mpc, all, sel, pend, wrote, server, captured, cycles,
                   ok, hadEligible, rankVars, dlVars, pingVars>>

Next ==
    \/ ReadAll
    \/ UpdateAll
    \/ \E g \in Groups : \E w \in {"ptr", "len"} : StoreWord(g, w)
    \/ \E g \in {"multi", "single"} : FindFastest(g)
    \/ StartGinServer
    \/ Tick
    \/ \E g \in Groups : Handler(g)
    \/ P0ReadAll
    \/ P0Measure
    \/ P0GoServer
    \/ P0Bind
    \/ P0Tick
    \/ P0RunServer
    \/ P0Handler

Spec == Init /\ [][Next]_vars

----------------------------------------------------------------------------
(* Properties of the main program *)

allfastestdomain == sel["all"]
multifastestdomain == sel["multi"]
singlefastestdomain == sel["single"]

\* A handler has answered a request.
Served == req.group # "none"

\* The process is alive and its server accepts requests.
Serving == server = "serving" /\ mpc \notin {"exit", "panic"}

\* The positions of main inside `for range ticker.C`, main.go:79-82, and in
\* the startup cycle before it.
RefreshPcs ==
    {"updAll", "storeAll", "findMulti", "storeMulti", "findSingle",
     "storeSingle", "run", "ticker", "p0_measure", "p0_run", "p0_ticker"}

\* What a handler of the group is given to redirect to.
Published(g) == IF prog = "part_000" THEN Str(captured) ELSE sel[g]

\* C2: the host a refresh cycle publishes for a group is a candidate of that
\* group whose probe succeeded and whose download did not fail, of least
\* latency among such candidates; so a completed cycle leaves only such
\* hosts published and no request is redirected to a host that was never
\* eligible.
C2_PublishedIsLeastEligible ==
    /\ \A g \in Groups : mpc = StorePc(g) => pend \in ok
    /\ mpc \in {"p0_go", "p0_run"} => pend \in ok
    /\ Served => hadEligible[req.group]

\* C3: the refresh loop keeps running for as long as the process serves
\* requests: while the server is serving, main is in its refresh cycle or
\* waiting for the next tick.
C3_RefreshLoopRunsWhileServing ==
    Serving => mpc \in RefreshPcs

\* C4: a refresh cycle in which a group's list is empty, or every candidate
\* of a group is filtered out, does not crash.
C4_EmptyRankingDoesNotCrash ==
    mpc # "panic"

\* C5: once a group has had an eligible host published, a cycle that finds
\* no eligible candidate for the group leaves the published host as it is:
\* whatever it assigns is the host already published.
C5_StaleRetention ==
    \A g \in Groups :
        (mpc = StorePc(g) /\ wrote = {} /\ ok = {} /\ hadEligible[g])
            => Str(pend) = sel[g]

\* C8: no request handler runs, and the server does not accept requests,
\* before the first call of updateAndStoreFastestDomains has returned; every
\* selection is then set.
C8_ServeOnlyAfterFirstCycle ==
    /\ Served => (req.ptr # "" /\ req.len # "")
    /\ (Served \/ server \in {"starting", "serving"}) =>
          /\ cycles >= 1
          /\ \A g \in Groups : prog = "main.go" => Published(g) # Str("")
          /\ prog = "part_000" => captured # ""

\* A handler has answered a request after the startup cycle.
C8_Witness ==
    /\ Served
    /\ prog = "main.go"
    /\ cycles = 1
    /\ Serving

\* C9: a request for a group that never had an eligible host published gets
\* an explicit "not yet available" answer, not a redirect.
C9_UnavailableBeforeFirstSelection ==
    (Served /\ ~hadEligible[req.group]) => req.kind = "unavailable"

C11_CycleMeasuresFullList ==
    mpc \in {"updAll", "p0_measure"} =>
        {all[i].Name : i \in 1..Len(all)} = {full[i] : i \in 1..Len(full)}

\* C12: the process exits only on a list-loading error at startup: once
\* the startup cycle has completed, a list file that cannot be opened does
\* not end the process.
C12_ExitOnlyAtStartup ==
    cycles >= 1 => mpc # "exit"

\* C13: filtering and sorting start only after every goroutine of the pass
\* has finished: once excludeDownloadError has run, no goroutine of the pass
\* is at tping or at download.
C13_FilterAfterAllTasks ==
    RankFinished => \A i \in DOMAIN task : task[i] = "done"

\* A pass has been filtered and sorted after two goroutines went through
\* download.
C13_Witness ==
    /\ RankFinished
    /\ Len(input) >= 2
    /\ Cardinality(called) >= 2

\* C14: download is called for a candidate exactly when its probe succeeded
\* in this pass; a candidate whose probe failed has Latency -1 and its
\* Download and DownloadErr are as they were read.
C14_DownloadIffProbeSucceeded ==
    rpc = "measure" =>
        \A i \in DOMAIN task :
            /\ task[i] = "tping" => i \notin called
            /\ task[i] = "done" =>
                 /\ i \in called <=> domains[i].Latency # -1
                 /\ domains[i].Latency = -1 =>
                        /\ domains[i].Download = 0
                        /\ ~domains[i].DownloadErr

\* Every goroutine of a pass has ended, one after a failed probe and one
\* after download.
C14_Witness ==
    /\ rpc = "measure"
    /\ \A i \in DOMAIN task : task[i] = "done"
    /\ \E i \in DOMAIN task : domains[i].Latency = -1 /\ i \notin called
    /\ \E i \in DOMAIN task : domains[i].Latency # -1 /\ i \in called

\* C17: a step of the goroutine of index i changes only element i of the
\* slice, and while a goroutine of the pass is still running the slice keeps
\* its length and the order of its hosts.
C17_TaskWritesOwnElement ==
    [][ /\ \A i \in DOMAIN task :
             task'[i] # task[i] =>
                 /\ Len(domains') = Len(domains)
                 /\ \A j \in DOMAIN domains : j # i => domains'[j] = domains[j]
        /\ (\E i \in DOMAIN task : task[i] # "done") =>
             /\ Len(domains') = Len(domains)
             /\ \A j \in DOMAIN domains : domains'[j].Name = domains[j].Name
      ]_vars

\* Two goroutines are running at once, both past tping, each having written
\* the latency of its own element.
C17_Witness ==
    /\ rpc = "measure"
    /\ Len(input) >= 2
    /\ task[1] = "download" /\ task[2] = "download"
    /\ domains[1].Latency # domains[2].Latency

\* The safety half of C15: speedCh is closed at most once and only when
\* every attempt has completed its one send and ended, and download returns
\* only then, having received one value from each attempt.
C15_ChannelSafe ==
    /\ closed <= 1
    /\ closed = 1 => \A i \in DOMAIN att : att[i] = "done"
    /\ dpc = "returned" =>
         /\ closed = 1
         /\ wg = 0
         /\ \A i \in DOMAIN att : att[i] = "done"

\* The steps download and its goroutines still have to take: three for an
\* attempt (get, send, wg.Done), one for the close and one for the return.
Remaining ==
    LET left(p) == IF p = "get" THEN 3
                   ELSE IF p = "send" THEN 2
                   ELSE IF p = "sent" THEN 1 ELSE 0
        sum[k \in 0..threads] == IF k = 0 THEN 0 ELSE left(att[k]) + sum[k - 1]
    IN  sum[threads] + (1 - closed) + (IF dpc = "returned" THEN 0 ELSE 1)

\* C15: download's channel protocol is safe and always terminates: for
\* every number of attempts and every interleaving the channel is closed
\* once, after all sends, and download returns with no goroutine left
\* blocked.  Termination: until download has returned some goroutine can
\* take a step, and every step leaves one step fewer to take.
C15_ChannelProtocol ==
    /\ [](C15_ChannelSafe /\ (dpc # "returned" => ENABLED NextDownload))
    /\ [][Remaining' = Remaining - 1 /\ Remaining' >= 0]_vars

\* download has returned after collecting from several attempts, failed
\* ones among them.
C15_Witness ==
    /\ dpc = "returned"
    /\ threads >= 3
    /\ \E i \in DOMAIN val : val[i] = -1
    /\ \E i \in DOMAIN val : val[i] # -1

\* C16: tping returns latency -1 exactly when it returns an error; a
\* probe that returns no error returns a latency of at least 0; and any
\* packet loss, even of one packet among several, is returned as an error.
C16_MinusOneIffError ==
    tpc = "returned" =>
        /\ tret.latency = -1 <=> tret.err
        /\ ~tret.err => tret.latency >= 0
        /\ (sent > 0 /\ recv < sent) => tret.err

\* tping has returned after the pinger lost some but not all of its
\* packets.
C16_Witness ==
    /\ tpc = "returned"
    /\ recv >= 1
    /\ recv < sent
    /\ tret.err

Names(ds) == [i \in 1..Len(ds) |-> ds[i].Name]

\* The orders of hosts a ranking of the measured slice may come out in.
RankOrders(ds) == {Names(s) : s \in SortSort(excludeDownloadError(ds))}

\* The same measurements with every throughput value erased.
EraseDownload(ds) == [i \in 1..Len(ds) |-> [ds[i] EXCEPT !.Download = 0]]

\* C18: latency is the only sort key: the ranked orders and the selected
\* hosts a pass may produce are those of the same latencies and failure
\* flags with every Download value replaced, so two passes that differ in
\* Download alone rank alike.
C18_OrderIgnoresDownload ==
    RankFinished =>
        /\ RankOrders(measured) = RankOrders(EraseDownload(measured))
        /\ Names(domains) \in RankOrders(EraseDownload(measured))
        /\ rpc = "returned" =>
             fastest \in {o[1] : o \in RankOrders(EraseDownload(measured))}

\* A pass has ranked two hosts of equal latency whose measured throughput
\* differs.
C18_Witness ==
    /\ rpc = "returned"
    /\ \E i, j \in 1..Len(measured) :
         /\ i # j
         /\ ~measured[i].DownloadErr /\ ~measured[j].DownloadErr
         /\ measured[i].Latency = measured[j].Latency
         /\ measured[i].Latency # -1
         /\ measured[i].Download # measured[j].Download

====
